---- MODULE Spec2Model ----
(***************************************************************************)
(* Model of the ExecutionClient trait of barter-execution                  *)
(* (src/barter-execution/src/client/mod.rs): the single-order calls        *)
(* cancel_order / open_order, the batched dispatch cancel_orders /         *)
(* open_orders built on FuturesUnordered, and the caller that polls,       *)
(* awaits or drops what these calls return.                                *)
(***************************************************************************)
EXTENDS Integers, Sequences, FiniteSets, TLC

\* ---------------------------------------------------------------- bounds
\* Largest batch handed to cancel_orders / open_orders.
MaxBatch == 3

\* ------------------------------------------------------------ value types
\* const EXCHANGE: the exchange the client is the adapter of.
EXCHANGE == "binance"
\* ExchangeId values the requests of this client carry.
Exchanges == {EXCHANGE}
\* InstrumentNameExchange values a request may carry.
Instruments == {"btc_usdt", "eth_usdt"}
\* UnindexedOrderError: a rejection by the exchange, or a transport failure
\* of that one request.
OrderErrors == {"rejected", "transport"}
\* What the exchange round trip of one request can end in.
Outcomes == {"ok"} \cup OrderErrors

\* Order<ExchangeId, &InstrumentNameExchange, RequestCancel>
RequestCancel == [exchange : Exchanges, instrument : Instruments, state : {"RequestCancel"}]
\* Order<ExchangeId, &InstrumentNameExchange, RequestOpen>
RequestOpen == [exchange : Exchanges, instrument : Instruments, state : {"RequestOpen"}]

\* Mutant: a transport failure of the request surfaces as a call-level error.
CancelState_ClientError(outcome) ==
    IF outcome = "ok" THEN [tag |-> "Cancelled", error |-> "none"]
    ELSE IF outcome = "transport" THEN [tag |-> "ClientError", error |-> outcome]
    ELSE [tag |-> "OrderError", error |-> outcome]

\* Result<Cancelled, UnindexedOrderError>: the state of cancel_order's record.
CancelState(outcome) ==
    IF outcome = "ok" THEN [tag |-> "Cancelled", error |-> "none"]
    ELSE [tag |-> "OrderError", error |-> outcome]

\* Mutant: the record is Open whatever the exchange answered.
OpenState_Optimistic(outcome) == [tag |-> "Open", error |-> "none"]

\* Result<Open, UnindexedOrderError>: the state of open_order's record.
OpenState(outcome) ==
    IF outcome = "ok" THEN [tag |-> "Open", error |-> "none"]
    ELSE [tag |-> "OrderError", error |-> outcome]

\* The record an adapter's single-order call resolves to: the identity of
\* the request it was given, with the terminal state in place of the request.
AdapterRecord(request, state) ==
    [exchange |-> request.exchange, instrument |-> request.instrument, state |-> state]

\* Output of the future returned by cancel_order(request).
cancel_order_output(request, outcome) == AdapterRecord(request, CancelState(outcome))

\* Output of the future returned by open_order(request).
open_order_output(request, outcome) == AdapterRecord(request, OpenState(outcome))

\* ------------------------------------------------- account event stream
\* The clients whose account streams one consumer multiplexes.
Clients == {"a", "b"}
\* Most events the exchanges emit in one run.
MaxEvents == 2
\* Most reconnects of the account streams in one run.
MaxReconnects == 1

\* The variants of AccountEvent other than ConnectionStatus.
EventVariants == {"OrderNew", "OrderCancelled", "Trade", "Balances"}
\* The payload of AccountEvent::ConnectionStatus.
ConnectionStatuses == {"Connected", "Disconnected"}
\* Every variant update_from_account_event matches on.
AccountEventVariants == EventVariants \cup {"ConnectionStatus"}

NoEvent == [variant |-> "none", status |-> "none", n |-> 0, epoch |-> 0]

\* The n-th event the exchanges emit, on a connection in its e-th epoch.
ExchangeEvent(variant, n, e) == [variant |-> variant, status |-> "none", n |-> n, epoch |-> e]

\* The event an adapter puts on its stream around a disconnect / reconnect.
StatusEvent(status, e) == [variant |-> "ConnectionStatus", status |-> status, n |-> 0, epoch |-> e]

\* ------------------------------------------------------------------ state
VARIABLES
    op,         \* the call in progress: "none", "cancel_order", "cancel_orders", "open_order", "open_orders"
    phase,      \* "idle", "active" (future / stream held by the caller), "ended", "dropped"
    requests,   \* the requests the caller passed to the call
    calls,      \* the requests the single-order method was invoked with, in order
    futures,    \* the futures the call created: [request, state, outcome]
    queue,      \* FuturesUnordered's ready-to-run queue (indices into futures)
    delivered,  \* what the caller has received: [idx, record]
    opened,     \* identities of the Open records the caller has received
    conn,       \* per client, its account_stream: "none", "failed", "up", "down"
    epoch,      \* per client, the reconnects of its account_stream so far
    stream,     \* per client, the items of its AccountStream not yet polled
    emitted,    \* the events the exchanges have emitted, in order of emission
    engine,     \* the engine that consumes the streams: [state, client, account] and the
                \* Cerebrum's components [feed, accounts, exchange_tx, strategy, event_tx]
    observed,   \* the events the engine has handled: [client, event]
    balance,    \* the balance value last constructed or returned: [source, time, total, available]
    pair,       \* per handle of one client, its batch call: [op, phase, requests, futures, queue, delivered]
    builder,    \* the OrderEventBuilder in hand: per field, "None" or the value set
    last,       \* per field, the value its setter was last called with ("None": never)
    built       \* the result of build(): not called yet, Ok(OrderEvent) or Err(BuilderIncomplete)

\* The state of the order calls, and of the account streams.
ovars == <<op, phase, requests, calls, futures, queue, delivered, opened>>
avars == <<conn, epoch, stream, emitted, engine, observed>>
\* The state of the portfolio values.
bvars == <<balance>>
\* The state of two batch calls made through handles of one client.
pvars == <<pair>>
\* The state of the order event builder.
uvars == <<builder, last, built>>
xvars == <<bvars, pvars, uvars>>
vars == <<ovars, avars, xvars>>

IsBatch == op \in {"cancel_orders", "open_orders"}
IsCancel == op \in {"cancel_order", "cancel_orders"}

Identity(r) == <<r.exchange, r.instrument>>

\* Sequences over S of length lo..hi.
SeqsOf(S, lo, hi) == UNION {[1..n -> S] : n \in lo..hi}

\* The components a Cerebrum carries from state to state, and the values
\* they are told apart by.
ComponentNames == {"feed", "accounts", "exchange_tx", "strategy", "event_tx"}
ComponentValues == {"x", "y"}
Components == [ComponentNames -> ComponentValues]

\* Cerebrum<State, Strategy>: the state marker (with the AccountEvent an
\* AccountUpdater holds, and the client it came from) and the components.
Cerebrum(state, client, account, comps) ==
    [state |-> state, client |-> client, account |-> account,
     feed |-> comps["feed"], accounts |-> comps["accounts"], exchange_tx |-> comps["exchange_tx"],
     strategy |-> comps["strategy"], event_tx |-> comps["event_tx"]]

InitAccount ==
    /\ conn = [c \in Clients |-> "none"]
    /\ epoch = [c \in Clients |-> 0]
    /\ stream = [c \in Clients |-> <<>>]
    /\ emitted = <<>>
    /\ engine = Cerebrum("Consumer", "none", NoEvent, [f \in ComponentNames |-> "x"])
    /\ observed = <<>>

\* No balance has been constructed yet.
NoBalance == [source |-> "none", time |-> 0, total |-> 0, available |-> 0]

InitPortfolio ==
    /\ balance = NoBalance

\* The handles of one client: the client and a clone of it.
Handles == {1, 2}

\* A handle no batch method has been called on yet.
IdleBatch == [op |-> "none", phase |-> "idle", requests |-> <<>>, futures |-> <<>>,
              queue |-> <<>>, delivered |-> <<>>]

InitPair ==
    /\ pair = [h \in Handles |-> IdleBatch]

\* The fields of OrderEventBuilder, in the order build() reads them.
Fields == <<"time", "exchange", "instrument", "market_meta", "decision", "quantity", "order_type">>
FieldNames == {Fields[k] : k \in 1..Len(Fields)}

\* OrderEventBuilder::new(): Self::default(), every Option is None.
OrderEventBuilder_new == [f \in FieldNames |-> "None"]

\* The Result of a build() not made yet; event is the OrderEvent of an Ok,
\* field the &'static str of a BuilderIncomplete.
NotBuilt == [tag |-> "none", event |-> OrderEventBuilder_new, error |-> "none", field |-> "none"]

InitBuilder ==
    /\ builder = OrderEventBuilder_new
    /\ last = [f \in FieldNames |-> "None"]
    /\ built = NotBuilt

Init ==
    /\ op = "none"
    /\ phase = "idle"
    /\ requests = <<>>
    /\ calls = <<>>
    /\ futures = <<>>
    /\ queue = <<>>
    /\ delivered = <<>>
    /\ opened = {}
    /\ InitAccount
    /\ InitPortfolio
    /\ InitPair
    /\ InitBuilder

\* A future as the single-order method returns it: nothing has run yet.
NewFuture(request) == [request |-> request, state |-> "created", outcome |-> "none"]

\* Mutant: every call is made with the request the iteration ended on.
MapRequests_LastCaptured(reqs) == [i \in 1..Len(reqs) |-> reqs[Len(reqs)]]

\* Mutant: every request is called a second time.
MapRequests_Twice(reqs) == reqs \o reqs

\* requests.into_iter().map(|request| self.cancel_order(request)): the
\* requests the single-order method is invoked with, one call per item.
MapRequests(reqs) == reqs

\* FuturesUnordered::from_iter: every future is pushed, and a pushed future
\* is queued to be polled.
FromIter(futs) == [i \in 1..Len(futs) |-> i]

\* The body shared by the two provided batch methods.
Dispatch(name, reqs) ==
    /\ phase = "idle"
    /\ op' = name
    /\ phase' = "active"
    /\ requests' = reqs
    /\ calls' = MapRequests(reqs)
    /\ futures' = [i \in 1..Len(calls') |-> NewFuture(calls'[i])]
    /\ queue' = FromIter(futures')
    /\ delivered' = <<>>
    /\ UNCHANGED <<opened, avars, xvars>>

cancel_orders == \E reqs \in SeqsOf(RequestCancel, 0, MaxBatch) : Dispatch("cancel_orders", reqs)

open_orders == \E reqs \in SeqsOf(RequestOpen, 0, MaxBatch) : Dispatch("open_orders", reqs)

\* A single-order call: the method is invoked once and its future is handed
\* to the caller.
Single(name, request) ==
    /\ phase = "idle"
    /\ op' = name
    /\ phase' = "active"
    /\ requests' = <<request>>
    /\ calls' = <<request>>
    /\ futures' = <<NewFuture(request)>>
    /\ queue' = <<>>
    /\ delivered' = <<>>
    /\ UNCHANGED <<opened, avars, xvars>>

cancel_order == \E request \in RequestCancel : Single("cancel_order", request)

open_order == \E request \in RequestOpen : Single("open_order", request)

\* Mutant: once a request of the batch has failed, the later outputs fail too.
Output_Poisoned(fut, outcome) ==
    LET o == IF \E k \in 1..Len(delivered) : delivered[k].record.state.tag = "OrderError"
             THEN "rejected" ELSE outcome
    IN  IF IsCancel THEN cancel_order_output(fut.request, o)
        ELSE open_order_output(fut.request, o)

\* The output a future resolves to, by the method that made it.
Output(fut, outcome) ==
    IF IsCancel THEN cancel_order_output(fut.request, outcome)
    ELSE open_order_output(fut.request, outcome)

\* The exchange's answer to request i arrives: the future's waker fires and,
\* in a batch, its task is queued again.
Respond(i, outcome) ==
    /\ i \in 1..Len(futures)
    /\ futures[i].state = "inflight"
    /\ futures' = [futures EXCEPT ![i] = [@ EXCEPT !.state = "woken", !.outcome = outcome]]
    /\ queue' = IF IsBatch THEN Append(queue, i) ELSE queue
    /\ UNCHANGED <<op, phase, requests, calls, delivered, opened, avars, xvars>>

Response == \E i \in 1..Len(futures), outcome \in Outcomes : Respond(i, outcome)

\* Whether polling task t makes it resolve: its answer has arrived, or it is
\* task t0, polled for the first time, whose adapter answers without suspending.
Resolves(t, t0) == futures[t].state = "woken" \/ t = t0

\* The answer task t resolves with.
OutcomeOf(t, t0, o) == IF t = t0 THEN o ELSE futures[t].outcome

\* Mutant: outputs are returned in submission order, so a resolved task
\* waits behind every earlier one.
FirstReady_InOrder(q, t0) ==
    LET head == {i \in 1..Len(futures) :
                    futures[i].state # "done" /\ \A i2 \in 1..(i - 1) : futures[i2].state = "done"}
    IN  IF \E p \in 1..Len(q) : q[p] \in head /\ Resolves(q[p], t0)
                                 /\ \A p2 \in 1..(p - 1) : q[p2] # t0
        THEN CHOOSE p \in 1..Len(q) : q[p] \in head
        ELSE 0

\* Position in the ready-to-run queue of the first task that resolves when
\* polled (0: none does). poll_next polls the queued tasks in queue order
\* and returns the first output it gets.
FirstReady(q, t0) ==
    IF \E p \in 1..Len(q) : Resolves(q[p], t0)
    THEN CHOOSE p \in 1..Len(q) :
            /\ Resolves(q[p], t0)
            /\ \A p2 \in 1..(p - 1) : ~Resolves(q[p2], t0)
    ELSE 0

\* The tasks poll_next dequeues: up to and including the one that resolves.
Dequeued(q, p) == IF p = 0 THEN {q[k] : k \in 1..Len(q)} ELSE {q[k] : k \in 1..p}

\* Mutant: the tasks queued behind the one that resolved are forgotten.
Remaining_Cleared(q, p) == <<>>

\* The queue poll_next leaves: the tasks behind the one that resolved.
Remaining(q, p) == IF p = 0 THEN <<>> ELSE SubSeq(q, p + 1, Len(q))

\* Mutant: the stream ends as soon as the ready-to-run queue has run empty.
IsEmpty_QueueDrained(futs) == TRUE

\* Mutant: a set that never held a future is not taken to be empty.
IsEmpty_NeedsOutput(futs) == Len(futs) > 0 /\ \A i \in 1..Len(futs) : futs[i].state = "done"

\* FuturesUnordered::is_empty, read when the queue has run empty: no future
\* is left in the set, and the stream ends.
IsEmpty(futs) == \A i \in 1..Len(futs) : futs[i].state = "done"

\* The futures after a poll that dequeued deq and got an output from task t
\* (0: from none): a task polled for the first time has sent its request.
Polled(futs, deq, t, outcome) ==
    [i \in 1..Len(futs) |->
        IF i = t THEN [futs[i] EXCEPT !.state = "done", !.outcome = outcome]
        ELSE IF i \in deq /\ futs[i].state = "created"
        THEN [futs[i] EXCEPT !.state = "inflight"]
        ELSE futs[i]]

\* The stream item poll_next returns for the output of task t.
Item(t, out) == [idx |-> t, record |-> out]

\* The identities of the Open records among what the caller holds.
Opened(old, record) == IF record.state.tag = "Open" THEN old \cup {Identity(record)} ELSE old

\* FuturesUnordered::poll_next, as the caller's poll of the batch stream.
\* t0, o: the task that answers on its first poll with o (t0 = 0: none does).
PollNextWith(t0, o) ==
    LET p == FirstReady(queue, t0)
        deq == Dequeued(queue, p)
    IN  IF p = 0
        THEN /\ futures' = Polled(futures, deq, 0, "none")
             /\ queue' = Remaining(queue, p)
             /\ delivered' = delivered
             /\ opened' = opened
             /\ phase' = IF IsEmpty(futures) THEN "ended" ELSE phase
        ELSE LET t == queue[p]
                 out == Output(futures[t], OutcomeOf(t, t0, o))
             IN  /\ futures' = Polled(futures, deq, t, OutcomeOf(t, t0, o))
                 /\ queue' = Remaining(queue, p)
                 /\ delivered' = Append(delivered, Item(t, out))
                 /\ opened' = Opened(opened, out)
                 /\ phase' = phase

\* The tasks that may answer on their first poll: created and queued.
FirstPolls == {t \in 1..Len(futures) :
    futures[t].state = "created" /\ \E k \in 1..Len(queue) : queue[k] = t}

PollNext ==
    /\ phase = "active"
    /\ IsBatch
    /\ \/ PollNextWith(0, "none")
       \/ \E t0 \in FirstPolls, o \in Outcomes : PollNextWith(t0, o)
    /\ UNCHANGED <<op, requests, calls, avars, xvars>>

\* The caller awaits the future of a single-order call: one poll of it.
AwaitWith(t0, o) ==
    IF Resolves(1, t0)
    THEN LET out == Output(futures[1], OutcomeOf(1, t0, o))
         IN  /\ futures' = Polled(futures, {1}, 1, OutcomeOf(1, t0, o))
             /\ delivered' = Append(delivered, Item(1, out))
             /\ opened' = Opened(opened, out)
             /\ phase' = "ended"
    ELSE /\ futures' = Polled(futures, {1}, 0, "none")
         /\ delivered' = delivered
         /\ opened' = opened
         /\ phase' = phase

Await ==
    /\ phase = "active"
    /\ ~IsBatch
    /\ \/ AwaitWith(0, "none")
       \/ futures[1].state = "created" /\ \E o \in Outcomes : AwaitWith(1, o)
    /\ UNCHANGED <<op, requests, calls, queue, avars, xvars>>

\* Mutant: the futures are detached and keep running after the drop.
Released_Detached(futs) == futs

\* What dropping the stream (or the future) leaves of the futures it owns:
\* every future that has not resolved is destroyed, with whatever answer it
\* had been woken for.
Released(futs) == [i \in 1..Len(futs) |->
    IF futs[i].state = "done" THEN futs[i]
    ELSE [futs[i] EXCEPT !.state = "dropped", !.outcome = "none"]]

\* The caller drops the stream or the future before it has ended.
Drop ==
    /\ phase = "active"
    /\ phase' = "dropped"
    /\ futures' = Released(futures)
    /\ queue' = <<>>
    /\ UNCHANGED <<op, requests, calls, delivered, opened, avars, xvars>>

\* The caller is done with the call and may issue the next one.
Finish ==
    /\ phase \in {"ended", "dropped"}
    /\ op' = "none"
    /\ phase' = "idle"
    /\ requests' = <<>>
    /\ calls' = <<>>
    /\ futures' = <<>>
    /\ queue' = <<>>
    /\ delivered' = <<>>
    /\ UNCHANGED <<opened, avars, xvars>>

Next ==
    \/ cancel_orders
    \/ open_orders
    \/ cancel_order
    \/ open_order
    \/ Response
    \/ PollNext
    \/ Await
    \/ Drop

Spec == Init /\ [][Next]_vars

\* A caller that issues single-order calls one after the other.
NextSeq ==
    \/ cancel_order
    \/ open_order
    \/ Response
    \/ Await
    \/ Drop
    \/ Finish

SpecSeq == Init /\ [][NextSeq]_vars

\* ------------------------------------------------- account event stream
\* account_stream(assets, instruments) of client c: Ok(stream), or
\* Err(ClientError) and no stream.
account_stream(c) ==
    /\ conn[c] = "none"
    /\ \E result \in {"up", "failed"} : conn' = [conn EXCEPT ![c] = result]
    /\ UNCHANGED <<epoch, stream, emitted, engine, observed, ovars, xvars>>

\* The exchange of client c emits an event on the connection; the adapter
\* puts it on the stream behind what is already there.
Emit(c, variant) ==
    /\ conn[c] = "up"
    /\ Len(emitted) < MaxEvents
    /\ LET ev == ExchangeEvent(variant, Len(emitted) + 1, epoch[c])
       IN  /\ emitted' = Append(emitted, [client |-> c, event |-> ev])
           /\ stream' = [stream EXCEPT ![c] = Append(@, ev)]
    /\ UNCHANGED <<conn, epoch, engine, observed, ovars, xvars>>

\* The reconnects so far, begun or completed.
Reconnects == Cardinality({c \in Clients : conn[c] = "down"})
                + Cardinality({<<c, e>> \in Clients \X (1..MaxReconnects) : e <= epoch[c]})

\* The connection of client c is lost: the adapter reports it on the stream.
Disconnect(c) ==
    /\ conn[c] = "up"
    /\ Reconnects < MaxReconnects
    /\ conn' = [conn EXCEPT ![c] = "down"]
    /\ stream' = [stream EXCEPT ![c] = Append(@, StatusEvent("Disconnected", epoch[c]))]
    /\ UNCHANGED <<epoch, emitted, engine, observed, ovars, xvars>>

\* The adapter of client c has reconnected and resubscribed.
Reconnect(c) ==
    /\ conn[c] = "down"
    /\ conn' = [conn EXCEPT ![c] = "up"]
    /\ epoch' = [epoch EXCEPT ![c] = @ + 1]
    /\ stream' = [stream EXCEPT ![c] = Append(@, StatusEvent("Connected", epoch[c] + 1))]
    /\ UNCHANGED <<emitted, engine, observed, ovars, xvars>>

\* Mutant: the newest item is taken first.
NextItem_Latest(s) == s[Len(s)]

\* Stream::poll_next on an AccountStream: the item at its front.
NextItem(s) == Head(s)

\* The engine, in its Consumer state, takes the next item of client c's
\* stream and becomes an AccountUpdater holding it.
Consume(c) ==
    /\ engine.state = "Consumer"
    /\ stream[c] # <<>>
    /\ engine' = [engine EXCEPT !.state = "AccountUpdater", !.client = c,
                                 !.account = NextItem(stream[c])]
    /\ stream' = [stream EXCEPT ![c] = Tail(@)]
    /\ UNCHANGED <<conn, epoch, emitted, observed, ovars, xvars>>

\* Mutant: the ConnectionStatus arm is missing and the event is passed over.
Handled_IgnoreStatus(obs, client, account) ==
    IF account.variant \in EventVariants
    THEN Append(obs, [client |-> client, event |-> account])
    ELSE obs

\* The match of update_from_account_event: every variant has an arm, and
\* the arm reports the event.
Handled(obs, client, account) ==
    IF account.variant \in AccountEventVariants
    THEN Append(obs, [client |-> client, event |-> account])
    ELSE obs

\* Mutant: the Consumer is built around a fresh strategy.
From_FreshStrategy(cerebrum) ==
    [state |-> "Consumer", client |-> "none", account |-> NoEvent,
     feed |-> cerebrum.feed, accounts |-> cerebrum.accounts,
     exchange_tx |-> cerebrum.exchange_tx, strategy |-> "x",
     event_tx |-> cerebrum.event_tx]

\* From<Cerebrum<AccountUpdater, Strategy>> for Cerebrum<Consumer, Strategy>:
\* state is Consumer (which holds nothing), every component is moved over.
From(cerebrum) ==
    [state |-> "Consumer", client |-> "none", account |-> NoEvent,
     feed |-> cerebrum.feed, accounts |-> cerebrum.accounts,
     exchange_tx |-> cerebrum.exchange_tx, strategy |-> cerebrum.strategy,
     event_tx |-> cerebrum.event_tx]

\* Cerebrum<AccountUpdater>::update_from_account_event: the match, then
\* Engine::Consumer(Cerebrum::from(self)).
update_from_account_event ==
    /\ engine.state = "AccountUpdater"
    /\ observed' = Handled(observed, engine.client, engine.account)
    /\ engine' = From(engine)
    /\ UNCHANGED <<conn, epoch, stream, emitted, ovars, xvars>>

NextAccount ==
    \/ \E c \in Clients : account_stream(c)
    \/ \E c \in Clients, variant \in EventVariants : Emit(c, variant)
    \/ \E c \in Clients : Disconnect(c)
    \/ \E c \in Clients : Reconnect(c)
    \/ \E c \in Clients : Consume(c)
    \/ update_from_account_event

SpecAccount == Init /\ [][NextAccount]_vars

\* --------------------------------------------- the AccountUpdater state alone
\* Every AccountEvent an AccountUpdater can hold.
AccountEvents ==
    {ExchangeEvent(variant, 1, 0) : variant \in EventVariants}
        \cup {StatusEvent(status, 0) : status \in ConnectionStatuses}

\* An engine in its AccountUpdater state, around any event and components.
InitEngine ==
    /\ op = "none"
    /\ phase = "idle"
    /\ requests = <<>>
    /\ calls = <<>>
    /\ futures = <<>>
    /\ queue = <<>>
    /\ delivered = <<>>
    /\ opened = {}
    /\ conn = [c \in Clients |-> "up"]
    /\ epoch = [c \in Clients |-> 0]
    /\ stream = [c \in Clients |-> <<>>]
    /\ emitted = <<>>
    /\ observed = <<>>
    /\ \E c \in Clients, account \in AccountEvents, comps \in Components :
            engine = Cerebrum("AccountUpdater", c, account, comps)
    /\ InitPortfolio
    /\ InitPair
    /\ InitBuilder

NextEngine == update_from_account_event

SpecEngine == InitEngine /\ [][NextEngine]_vars

\* ----------------------------------------------- a batch polled to its end
\* Largest batch of a caller that polls its stream for ever.
MaxLiveBatch == 2

\* cancel_orders / open_orders, called by a caller that never drops the stream.
DispatchLive ==
    \/ \E reqs \in SeqsOf(RequestCancel, 0, MaxLiveBatch) : Dispatch("cancel_orders", reqs)
    \/ \E reqs \in SeqsOf(RequestOpen, 0, MaxLiveBatch) : Dispatch("open_orders", reqs)

NextLive ==
    \/ DispatchLive
    \/ Response
    \/ PollNext

\* The caller keeps polling: a poll that would change something is made.
\* Nothing makes the exchange answer.
SpecLive == Init /\ [][NextLive]_vars /\ WF_vars(PollNext)

\* -------------------------------------- two batches on handles of one client
\* Most requests of the two batches together.
MaxPairTotal == 3

\* Mutant: the streams of all handles poll the one set of the first handle.
Polls_Shared(h) == 1

\* The set of futures the stream returned to handle h polls: the
\* FuturesUnordered its own call built.
Polls(h) == h

\* The requests dispatched on the handles so far.
PairTotal == Len(pair[1].requests) + Len(pair[2].requests)

\* cancel_orders / open_orders called on handle h while the other handle's
\* stream may be live.
PairDispatch(h, name, reqs) ==
    /\ pair[h].phase = "idle"
    /\ PairTotal + Len(reqs) <= MaxPairTotal
    /\ LET cs == MapRequests(reqs)
           futs == [i \in 1..Len(cs) |-> NewFuture(cs[i])]
       IN  pair' = [pair EXCEPT ![h] = [op |-> name, phase |-> "active", requests |-> reqs,
                                         futures |-> futs, queue |-> FromIter(futs),
                                         delivered |-> <<>>]]
    /\ UNCHANGED <<ovars, avars, bvars, uvars>>

\* The requests of S the two batches are made of: all for one instrument, so
\* that requests of the two batches cannot be told apart by their content.
SameInstrument(S) == {r \in S : r.instrument = "btc_usdt"}

PairCancelOrders(h) ==
    \E reqs \in SeqsOf(SameInstrument(RequestCancel), 1, MaxPairTotal) :
        PairDispatch(h, "cancel_orders", reqs)

PairOpenOrders(h) ==
    \E reqs \in SeqsOf(SameInstrument(RequestOpen), 1, MaxPairTotal) :
        PairDispatch(h, "open_orders", reqs)

\* The exchange's answer to request i of the batch of handle b arrives.
PairRespond(b, i, outcome) ==
    /\ i \in 1..Len(pair[b].futures)
    /\ pair[b].futures[i].state = "inflight"
    /\ pair' = [pair EXCEPT ![b].futures[i] = [@ EXCEPT !.state = "woken", !.outcome = outcome],
                            ![b].queue = Append(@, i)]
    /\ UNCHANGED <<ovars, avars, bvars, uvars>>

PairResponse ==
    \E b \in Handles, i \in 1..MaxPairTotal + 1, outcome \in Outcomes : PairRespond(b, i, outcome)

\* Resolves / FirstReady, over the futures of one set.
ResolvesIn(futs, t, t0) == futs[t].state = "woken" \/ t = t0

FirstReadyIn(futs, q, t0) ==
    IF \E p \in 1..Len(q) : ResolvesIn(futs, q[p], t0)
    THEN CHOOSE p \in 1..Len(q) :
            /\ ResolvesIn(futs, q[p], t0)
            /\ \A p2 \in 1..(p - 1) : ~ResolvesIn(futs, q[p2], t0)
    ELSE 0

\* The output of a future of the batch call name.
OutputOf(name, fut, outcome) ==
    IF name = "cancel_orders" THEN cancel_order_output(fut.request, outcome)
    ELSE open_order_output(fut.request, outcome)

\* The stream item, with the set its future belongs to.
PairItem(b, t, out) == [batch |-> b, idx |-> t, record |-> out]

\* poll_next on the stream held through handle h.
PairPollWith(h, t0, o) ==
    LET b == Polls(h)
        futs == pair[b].futures
        q == pair[b].queue
        p == FirstReadyIn(futs, q, t0)
        deq == Dequeued(q, p)
        t == IF p = 0 THEN 0 ELSE q[p]
        outcome == IF t = 0 THEN "none" ELSE IF t = t0 THEN o ELSE futs[t].outcome
        polled == [pair EXCEPT ![b].futures = Polled(futs, deq, t, outcome),
                               ![b].queue = Remaining(q, p)]
    IN  IF p = 0
        THEN pair' = [polled EXCEPT ![h].phase = IF IsEmpty(futs) THEN "ended" ELSE @]
        ELSE pair' = [polled EXCEPT ![h].delivered =
                        Append(@, PairItem(b, t, OutputOf(pair[b].op, futs[t], outcome)))]

PairFirstPolls(b) == {t \in 1..Len(pair[b].futures) :
    pair[b].futures[t].state = "created" /\ \E k \in 1..Len(pair[b].queue) : pair[b].queue[k] = t}

PairPoll(h) ==
    /\ pair[h].phase = "active"
    /\ \/ PairPollWith(h, 0, "none")
       \/ \E t0 \in PairFirstPolls(Polls(h)), o \in Outcomes : PairPollWith(h, t0, o)
    /\ UNCHANGED <<ovars, avars, bvars, uvars>>

\* The stream held through handle h is dropped before it has ended.
PairDrop(h) ==
    /\ pair[h].phase = "active"
    /\ LET b == Polls(h)
           released == [pair EXCEPT ![b].futures = Released(@), ![b].queue = <<>>]
       IN  pair' = [released EXCEPT ![h].phase = "dropped"]
    /\ UNCHANGED <<ovars, avars, bvars, uvars>>

NextPair ==
    \/ \E h \in Handles : PairCancelOrders(h)
    \/ \E h \in Handles : PairOpenOrders(h)
    \/ PairResponse
    \/ \E h \in Handles : PairPoll(h)
    \/ \E h \in Handles : PairDrop(h)

SpecPair == Init /\ [][NextPair]_vars

\* ------------------------------------------------------------- balances
\* Largest amount a balance is built from.
MaxAmount == 3
\* The total and available amounts a caller may pass: any number, negative
\* ones included.
Amounts == (0 - MaxAmount)..MaxAmount
\* The DateTime<Utc> values a balance may carry.
Times == {1, 2}

\* Balance::new(time, total, available): the fields as given.
Balance_new(time, total, available) ==
    [source |-> "new", time |-> time, total |-> total, available |-> available]

\* Balance::default(): both amounts 0.0, at the time of the call.
Balance_default(now) ==
    [source |-> "default", time |-> now, total |-> 0, available |-> 0]

\* The balances an exchange holds for an account: available within total,
\* neither negative.
ExchangeBalances ==
    {b \in [source : {"fetch_balances"}, time : Times, total : 0..MaxAmount, available : 0..MaxAmount] :
        b.available <= b.total}

NewBalance ==
    /\ \E time \in Times, total \in Amounts, available \in Amounts :
        balance' = Balance_new(time, total, available)
    /\ UNCHANGED <<ovars, avars, pvars, uvars>>

DefaultBalance ==
    /\ \E now \in Times : balance' = Balance_default(now)
    /\ UNCHANGED <<ovars, avars, pvars, uvars>>

\* fetch_balances(): Ok with what the exchange holds (one asset here).
fetch_balances ==
    /\ \E b \in ExchangeBalances : balance' = b
    /\ UNCHANGED <<ovars, avars, pvars, uvars>>

NextBalance ==
    \/ NewBalance
    \/ DefaultBalance
    \/ fetch_balances

SpecBalance == Init /\ [][NextBalance]_vars

\* --------------------------------------------------- the order event builder
\* The values a setter is called with; "None" is the Option's None.
FieldValues == {"v1", "v2"}

\* The setters: Self { <field>: Some(value), ..self }.
time(b, value) == [b EXCEPT !["time"] = value]
exchange(b, value) == [b EXCEPT !["exchange"] = value]
instrument(b, value) == [b EXCEPT !["instrument"] = value]
market_meta(b, value) == [b EXCEPT !["market_meta"] = value]
decision(b, value) == [b EXCEPT !["decision"] = value]
quantity(b, value) == [b EXCEPT !["quantity"] = value]

\* Mutant: the setter fills the other fields from Self::default().
order_type_FromDefault(b, value) == [OrderEventBuilder_new EXCEPT !["order_type"] = value]

order_type(b, value) == [b EXCEPT !["order_type"] = value]

\* The setter of field f.
Setter(f, b, value) ==
    CASE f = "time" -> time(b, value)
      [] f = "exchange" -> exchange(b, value)
      [] f = "instrument" -> instrument(b, value)
      [] f = "market_meta" -> market_meta(b, value)
      [] f = "decision" -> decision(b, value)
      [] f = "quantity" -> quantity(b, value)
      [] f = "order_type" -> order_type(b, value)

Ok(event) == [tag |-> "Ok", event |-> event, error |-> "none", field |-> "none"]
BuilderIncomplete(f) == [tag |-> "Err", event |-> OrderEventBuilder_new, error |-> "BuilderIncomplete", field |-> f]

\* The chain of ok_or(..)? from the k-th field on: the first None returns
\* the error that names its field.
RECURSIVE BuildFrom(_, _, _)
BuildFrom(b, order, k) ==
    IF k > Len(order) THEN Ok(b)
    ELSE IF b[order[k]] = "None" THEN BuilderIncomplete(order[k])
    ELSE BuildFrom(b, order, k + 1)

\* Mutant: the fields are read from the last to the first.
build_Reversed(b) == BuildFrom(b, [k \in 1..Len(Fields) |-> Fields[Len(Fields) + 1 - k]], 1)

\* OrderEventBuilder::build
build(b) == BuildFrom(b, Fields, 1)

\* OrderEventBuilder::new(), in place of the builder in hand (if any).
New ==
    /\ builder' = OrderEventBuilder_new
    /\ last' = [f \in FieldNames |-> "None"]
    /\ built' = NotBuilt
    /\ UNCHANGED <<ovars, avars, bvars, pvars>>

\* A call of the setter of field f on the builder in hand.
Set(f, value) ==
    /\ built = NotBuilt
    /\ builder' = Setter(f, builder, value)
    /\ last' = [last EXCEPT ![f] = value]
    /\ UNCHANGED <<built, ovars, avars, bvars, pvars>>

\* build() on the builder in hand, which it consumes.
Build ==
    /\ built = NotBuilt
    /\ built' = build(builder)
    /\ UNCHANGED <<builder, last, ovars, avars, bvars, pvars>>

NextBuilder ==
    \/ New
    \/ \E f \in FieldNames, value \in FieldValues : Set(f, value)
    \/ Build

SpecBuilder == Init /\ [][NextBuilder]_vars

\* ---------------------------------------------------------------- claims
DeliveredIdx == {delivered[k].idx : k \in 1..Len(delivered)}

\* The tag of a successful record of the call in progress.
SuccessTag == IF IsCancel THEN "Cancelled" ELSE "Open"

\* C1: a batch stream never yields a request's result twice, and a caller
\* that has consumed it to its end has received exactly one result for each
\* of the N submitted requests.
C1_ExactlyOnePerRequest ==
    IsBatch =>
        /\ \A k1, k2 \in 1..Len(delivered) : k1 # k2 => delivered[k1].idx # delivered[k2].idx
        /\ DeliveredIdx \subseteq 1..Len(requests)
        /\ phase = "ended" =>
            /\ Len(delivered) = Len(requests)
            /\ DeliveredIdx = 1..Len(requests)

C1_Witness ==
    /\ IsBatch
    /\ phase = "ended"
    /\ Len(requests) = 3
    /\ Len(delivered) = 3
    /\ delivered[1].idx = 3

\* C2: in a batch, every record carries the OrderError of its own request
\* when that request failed and the success state when it did not, whatever
\* happened to its siblings; and the ended stream has yielded one record per
\* request.
C2_FailureIsolation ==
    IsBatch =>
        /\ \A k \in 1..Len(delivered) :
            LET o == futures[delivered[k].idx].outcome
                st == delivered[k].record.state
            IN  /\ o \in Outcomes
                /\ o \in OrderErrors => st = [tag |-> "OrderError", error |-> o]
                /\ o = "ok" => st = [tag |-> SuccessTag, error |-> "none"]
        /\ phase = "ended" => Len(delivered) = Len(requests)

C2_Witness ==
    /\ op = "cancel_orders"
    /\ phase = "ended"
    /\ Len(requests) = 3
    /\ futures[1].outcome = "ok" /\ futures[2].outcome = "rejected" /\ futures[3].outcome = "ok"
    /\ \A k \in 1..Len(delivered) :
        delivered[k].record.state.tag = IF delivered[k].idx = 2 THEN "OrderError" ELSE "Cancelled"

\* C3: every result record, of a single-order call or of a batch, has the
\* exchange and instrument of the request it answers; each future was made
\* from its request as submitted.
C3_IdentityPreserved ==
    /\ \A k \in 1..Len(delivered) :
        /\ delivered[k].idx \in 1..Len(requests)
        /\ Identity(delivered[k].record) = Identity(requests[delivered[k].idx])
        /\ delivered[k].record.state.tag \in {"Open", "Cancelled", "OrderError"}
    /\ op # "none" =>
        /\ Len(futures) = Len(requests)
        /\ \A i \in 1..Len(futures) : futures[i].request = requests[i]

C3_Witness ==
    /\ IsBatch
    /\ \E k1, k2 \in 1..Len(delivered) :
        /\ delivered[k1].record.instrument # delivered[k2].record.instrument
        /\ delivered[k1].record.state.tag = "OrderError"
        /\ delivered[k2].record.state.tag \in {"Open", "Cancelled"}
        /\ delivered[k1].idx > delivered[k2].idx

Woken(j) == j \in 1..Len(futures) /\ futures[j].state = "woken"
StillPending(i) == i \in 1..Len(futures) /\ futures[i].state \in {"created", "inflight"}

C5_DropStops ==
    [][/\ (phase = "active" /\ phase' = "dropped") => delivered' = delivered
       /\ phase = "dropped" =>
            /\ delivered' = delivered
            /\ futures' = futures
            /\ queue' = queue
            /\ phase' = "dropped"]_vars

C5_Witness ==
    /\ IsBatch
    /\ phase = "dropped"
    /\ Len(requests) = 3
    /\ Len(delivered) = 1
    /\ \E i \in 1..Len(futures) : futures[i].state = "dropped"

\* C6: a completed single-order call has returned exactly one record, whose
\* state is the success state of the call or an OrderError; a failure of the
\* request, transport failures included, is the OrderError of that record.
C6_SingleCallNeverFails ==
    (op \in {"cancel_order", "open_order"} /\ phase = "ended") =>
        /\ Len(delivered) = 1
        /\ futures[1].state = "done"
        /\ delivered[1].record.state.tag \in {SuccessTag, "OrderError"}
        /\ futures[1].outcome \in OrderErrors =>
                delivered[1].record.state = [tag |-> "OrderError", error |-> futures[1].outcome]
        /\ futures[1].outcome = "ok" => delivered[1].record.state.tag = SuccessTag

C6_Witness ==
    /\ op = "cancel_order"
    /\ phase = "ended"
    /\ futures[1].outcome = "transport"
    /\ delivered[1].record.state.tag = "OrderError"

\* The request that targets the order of identity id for cancellation.
CancelOf(id) == [exchange |-> id[1], instrument |-> id[2], state |-> "RequestCancel"]

\* The states C7 allows: a record is Cancelled or OrderError for a cancel,
\* Open or OrderError for an open, Open only for an open the exchange
\* accepted; the caller holds a record of a request exactly when its future
\* has resolved; and an order it holds Open can be named in a RequestCancel.
C7_States ==
    /\ \A k \in 1..Len(delivered) :
        /\ delivered[k].record.state.tag \in {SuccessTag, "OrderError"}
        /\ delivered[k].record.state.tag = "Open" =>
            /\ op \in {"open_order", "open_orders"}
            /\ futures[delivered[k].idx].outcome = "ok"
    /\ \A i \in 1..Len(futures) :
        /\ futures[i].state \in {"created", "inflight", "woken", "done", "dropped"}
        /\ futures[i].state = "done" <=> i \in DeliveredIdx
    /\ \A id \in opened :
        /\ CancelOf(id) \in RequestCancel
        /\ phase = "idle" => ENABLED Single("cancel_order", CancelOf(id))

\* The steps C7 allows within one call: a resolved future and its record
\* stay as they are, and a destroyed future stays destroyed.
C7_Steps ==
    phase' # "idle" =>
        /\ \A i \in 1..Len(futures) :
            futures[i].state \in {"done", "dropped"} =>
                /\ i \in 1..Len(futures')
                /\ futures'[i] = futures[i]
        /\ Len(delivered') >= Len(delivered)
        /\ SubSeq(delivered', 1, Len(delivered)) = delivered

\* C7: the order lifecycle: RequestOpen resolves to Open or OrderError and
\* RequestCancel to Cancelled or OrderError, once and for good.
C7_Lifecycle == []C7_States /\ [][C7_Steps]_vars

C7_Witness ==
    /\ op = "cancel_order"
    /\ phase = "ended"
    /\ Identity(requests[1]) \in opened
    /\ delivered[1].record.state.tag = "Cancelled"

\* C8: a batch of N requests invokes the single-order method N times, once
\* with each request, and never again, whatever the calls resolve to.
C8_OneCallPerRequest ==
    IsBatch =>
        /\ calls = requests
        /\ Len(futures) = Len(requests)

C8_Witness ==
    /\ op = "open_orders"
    /\ phase = "ended"
    /\ Len(requests) = 3
    /\ Len(calls) = 3
    /\ \E k \in 1..Len(delivered) : delivered[k].record.state.tag = "OrderError"

\* Whether event ev of client c has reached the consumer or is on its way.
OnItsWay(c, ev) ==
    \/ \E k \in 1..Len(stream[c]) : stream[c][k] = ev
    \/ engine.state = "AccountUpdater" /\ engine.client = c /\ engine.account = ev
    \/ \E k \in 1..Len(observed) : observed[k] = [client |-> c, event |-> ev]

\* C9: every item of an account stream is an AccountEvent; a lost connection
\* is on the stream as a ConnectionStatus event; and the consumer has handled
\* the ConnectionStatus events of a disconnect and reconnect before it
\* handles any event emitted after that reconnect.
C9_ConnectionStatusEvents ==
    /\ \A c \in Clients :
        /\ \A k \in 1..Len(stream[c]) : stream[c][k].variant \in AccountEventVariants
        /\ conn[c] \in {"none", "failed"} => stream[c] = <<>>
        /\ conn[c] = "down" => OnItsWay(c, StatusEvent("Disconnected", epoch[c]))
        /\ \A e \in 1..MaxReconnects : e <= epoch[c] => OnItsWay(c, StatusEvent("Connected", e))
    /\ engine.state = "AccountUpdater" => engine.account.variant \in AccountEventVariants
    /\ \A k \in 1..Len(observed) :
        /\ observed[k].event.variant \in AccountEventVariants
        /\ (observed[k].event.variant # "ConnectionStatus" /\ observed[k].event.epoch >= 1) =>
            \E k1, k2 \in 1..(k - 1) :
                /\ k1 < k2
                /\ observed[k1] = [client |-> observed[k].client,
                                   event |-> StatusEvent("Disconnected", observed[k].event.epoch - 1)]
                /\ observed[k2] = [client |-> observed[k].client,
                                   event |-> StatusEvent("Connected", observed[k].event.epoch)]

C9_Witness ==
    \E k \in 1..Len(observed) :
        /\ observed[k].event.variant \in EventVariants
        /\ observed[k].event.epoch = 1

\* The events of client c in a log of [client, event], status events left out.
EventsOf(log, c) ==
    SelectSeq(log, LAMBDA x : x.client = c /\ x.event.variant # "ConnectionStatus")

IsPrefix(a, b) == Len(a) <= Len(b) /\ SubSeq(b, 1, Len(a)) = a

\* C10: for each client, the events the consumer has handled are the first
\* events its exchange emitted on the stream, in the order of emission.
C10_InOrderPerConnection ==
    \A c \in Clients : IsPrefix(EventsOf(observed, c), EventsOf(emitted, c))

C10_Witness ==
    \E c \in Clients : Len(EventsOf(observed, c)) = 2

\* C11: every balance value constructed or returned has available <= total,
\* with total and available both non-negative.
C11_BalanceInvariant ==
    balance.source # "none" =>
        /\ 0 <= balance.available
        /\ balance.available <= balance.total
        /\ 0 <= balance.total

\* Every single-order call of the batch eventually resolves.
EveryCallResolves == WF_vars(Response)

\* C12: with a caller that keeps polling, a batch stream ends if every
\* single-order call eventually resolves, and it ends only after all N
\* results have been yielded; while a call has not resolved the stream has
\* not ended, and every request that has resolved has its result delivered.
C12_Termination ==
    /\ EveryCallResolves => (IsBatch ~> phase = "ended")
    /\ [](phase = "ended" =>
            /\ Len(delivered) = Len(requests)
            /\ \A i \in 1..Len(futures) : futures[i].state = "done")
    /\ \A i \in 1..MaxLiveBatch : Woken(i) ~> (i \in DeliveredIdx)

C12_Witness ==
    /\ IsBatch
    /\ phase = "ended"
    /\ Len(requests) = 2
    /\ delivered[1].idx = 2

EmptyBatch == IsBatch /\ Len(requests) = 0

\* C13: open_orders / cancel_orders with zero requests invokes no
\* single-order call, and the stream it returns ends on its first poll,
\* with no result.
C13_EmptyBatch ==
    /\ [](EmptyBatch =>
            /\ calls = <<>>
            /\ futures = <<>>
            /\ delivered = <<>>
            /\ phase = "active" => ENABLED (PollNext /\ phase' = "ended" /\ delivered' = <<>>))
    /\ [][(EmptyBatch /\ PollNext) => (phase' = "ended" /\ delivered' = <<>>)]_vars

C13_Witness ==
    /\ EmptyBatch
    /\ phase = "ended"
    /\ delivered = <<>>

\* The fields in the order the error names the first unset one by.
NamingOrder == <<"time", "exchange", "instrument", "market_meta", "decision", "quantity", "order_type">>

\* The other handle.
Other(h) == 3 - h

\* The results the stream of handle h has yielded are results of its own
\* requests, at most one for each.
OwnResults(h) ==
    LET d == pair[h].delivered
    IN  /\ \A k \in 1..Len(d) :
            /\ d[k].batch = h
            /\ d[k].idx \in 1..Len(pair[h].requests)
            /\ Identity(d[k].record) = Identity(pair[h].requests[d[k].idx])
            /\ d[k].record.state.tag \in
                    (IF pair[h].op = "cancel_orders" THEN {"Cancelled"} ELSE {"Open"}) \cup {"OrderError"}
        /\ \A k1, k2 \in 1..Len(d) : d[k1].idx = d[k2].idx => k1 = k2

\* C14: two batches dispatched on handles of one client do not interfere.
\* Each stream yields only results of its own requests, exactly one per
\* request once it has ended; a poll or a drop of one stream changes
\* nothing of the other batch; and whatever the other stream's state, a
\* stream with an answered request can still yield a result.
C14_NoInterference ==
    /\ [](\A h \in Handles :
            /\ OwnResults(h)
            /\ pair[h].phase = "ended" =>
                    {pair[h].delivered[k].idx : k \in 1..Len(pair[h].delivered)}
                        = 1..Len(pair[h].requests)
            /\ (pair[h].phase = "active"
                  /\ \E i \in 1..Len(pair[h].futures) : pair[h].futures[i].state = "woken")
                    => ENABLED (PairPoll(h)
                                  /\ Len(pair'[h].delivered) = Len(pair[h].delivered) + 1))
    /\ [][\A h \in Handles :
            (PairPoll(h) \/ PairDrop(h)) => pair'[Other(h)] = pair[Other(h)]]_vars

C14_Witness ==
    /\ pair[1].phase = "ended"
    /\ Len(pair[1].requests) = 1
    /\ pair[2].phase = "dropped"
    /\ Len(pair[2].requests) = 2
    /\ Len(pair[2].delivered) = 1

\* The components of a Cerebrum.
ComponentsOf(cerebrum) == [f \in ComponentNames |-> cerebrum[f]]

\* C15: the AccountUpdater state has exactly one successor. Whatever
\* AccountEvent variant it holds, update_from_account_event can be taken and
\* gives Engine::Consumer, with feed, accounts, exchange_tx, strategy and
\* event_tx as they were.
C15_AccountUpdaterToConsumer ==
    /\ [](/\ engine.state \in {"AccountUpdater", "Consumer"}
          /\ engine.state = "AccountUpdater" =>
                /\ engine.account.variant \in AccountEventVariants
                /\ ENABLED update_from_account_event)
    /\ [][engine.state = "AccountUpdater" =>
            /\ update_from_account_event
            /\ engine'.state = "Consumer"
            /\ ComponentsOf(engine') = ComponentsOf(engine)]_vars

C15_Witness ==
    /\ engine.state = "Consumer"
    /\ Len(observed) = 1
    /\ observed[1].event.variant = "ConnectionStatus"
    /\ engine.strategy = "y"
    /\ engine.feed = "x"

\* C16: build returns Ok exactly when all seven setters have been called,
\* and the OrderEvent carries the value each was last called with;
\* otherwise it returns BuilderIncomplete naming the first field, in the
\* order time, exchange, instrument, market_meta, decision, quantity,
\* order_type, whose setter has not been called.
C16_Build ==
    built # NotBuilt =>
        /\ built.tag \in {"Ok", "Err"}
        /\ built.tag = "Ok" <=> \A k \in 1..Len(NamingOrder) : last[NamingOrder[k]] # "None"
        /\ built.tag = "Ok" =>
                \A k \in 1..Len(NamingOrder) : built.event[NamingOrder[k]] = last[NamingOrder[k]]
        /\ built.tag = "Err" =>
                /\ built.error = "BuilderIncomplete"
                /\ \E k \in 1..Len(NamingOrder) :
                    /\ built.field = NamingOrder[k]
                    /\ last[NamingOrder[k]] = "None"
                    /\ \A j \in 1..(k - 1) : last[NamingOrder[j]] # "None"

C16_Witness ==
    /\ built # NotBuilt
    /\ built.tag = "Ok"
    /\ built.event["time"] = "v2"
    /\ built.event["order_type"] = "v1"

\* What the setters do to builder b.
SetterLaws(b) ==
    \A f, g \in FieldNames, v, w \in FieldValues :
        /\ Setter(f, b, v)[f] = v
        /\ f # g => Setter(f, b, v)[g] = b[g]
        /\ f # g => Setter(f, Setter(g, b, w), v) = Setter(g, Setter(f, b, v), w)
        /\ Setter(f, Setter(f, b, w), v) = Setter(f, b, v)

\* C17: a setter changes its own field only; setters of distinct fields
\* commute; the same setter called twice keeps the later value; a new
\* builder has every field unset.
C17_Setters ==
    /\ [](/\ SetterLaws(builder)
          /\ builder = last
          /\ \A f \in FieldNames : OrderEventBuilder_new[f] = "None")
    /\ [][/\ New => \A f \in FieldNames : builder'[f] = "None"
          /\ \A f \in FieldNames :
                (\E v \in FieldValues : Set(f, v)) =>
                    /\ builder'[f] \in FieldValues
                    /\ \A g \in FieldNames \ {f} : builder'[g] = builder[g]]_vars

C17_Witness ==
    /\ built = NotBuilt
    /\ builder["time"] = "v2"
    /\ builder["order_type"] = "v1"
    /\ builder["quantity"] = "None"

====
